---- MODULE Spec2Model ----
(***************************************************************************)
(* A model of bitstruct.py: the bit-level codec pack / unpack / calcsize,  *)
(* the endianness translation translate_endianness, and the in-place       *)
(* byteswap.                                                               *)
(*                                                                         *)
(* Python strings are sequences of one-character strings: a descriptor is  *)
(* <<"<", "u", "1", "0">>, a bit string is <<"1", "0", "1">>.  Byte        *)
(* buffers (bytearray) are sequences of integers 0..255.  A float argument *)
(* is the big-endian byte pattern of its IEEE-754 encoding in the width of *)
(* its field.  A call that raises is a result with a non-empty err.        *)
(***************************************************************************)
EXTENDS Integers, Sequences, FiniteSets, TLC

VARIABLES
    fmtTokens,  \* codec: the descriptor as written, token by token
    fmt,        \* codec: the descriptor string handed to the call
    args,       \* codec: the argument tuple handed to pack
    data,       \* codec: the buffer handed to unpack
    op,         \* codec: the last call made ("init" before any)
    ret,        \* codec: what the last call returned or raised
    bitstring,  \* translate: the bit string under translation
    little,     \* translate: translate_endianness(bitstring, '<')
    big,        \* translate: translate_endianness(little, '>')
    tstep,      \* translate: calls made so far
    swapFmt,    \* byteswap: the group widths of the last call
    swapOffset, \* byteswap: the offset of the last call
    buf,        \* byteswap: the bytearray, mutated in place
    orig,       \* byteswap: the bytearray as it was before the first call
    swapRet,    \* byteswap: the buffer the last call returned
    calls       \* byteswap: calls made so far

vars == <<fmtTokens, fmt, args, data, op, ret, bitstring, little, big, tstep,
          swapFmt, swapOffset, buf, orig, swapRet, calls>>

codecVars == <<fmtTokens, fmt, args, data, op, ret>>
translateVars == <<bitstring, little, big, tstep>>
swapVars == <<swapFmt, swapOffset, buf, orig, swapRet, calls>>

----------------------------------------------------------------------------
(* Python built-ins the source relies on.                                  *)

Pow2(n) == 2 ^ n

\* s[a:b] for 0 <= a, with both ends clamped to the string as Python does.
Slice(s, a, b) ==
    LET hi == IF b > Len(s) THEN Len(s) ELSE b
    IN  IF a >= hi THEN <<>> ELSE SubSeq(s, a + 1, hi)

Reverse(s) == [i \in 1..Len(s) |-> s[Len(s) + 1 - i]]

RECURSIVE Repeat(_, _)
\* n * c for a one-character string c.
Repeat(c, n) == IF n <= 0 THEN <<>> ELSE <<c>> \o Repeat(c, n - 1)

RECURSIVE Flatten(_)
\* ''.join(parts)
Flatten(parts) ==
    IF parts = <<>> THEN <<>> ELSE Head(parts) \o Flatten(Tail(parts))

RECURSIVE SumSeq(_)
SumSeq(s) == IF s = <<>> THEN 0 ELSE Head(s) + SumSeq(Tail(s))

DigitChars == <<"0", "1", "2", "3", "4", "5", "6", "7", "8", "9">>

IsDigit(c) == \E i \in 1..Len(DigitChars) : DigitChars[i] = c

DigitVal(c) == (CHOOSE i \in 1..Len(DigitChars) : DigitChars[i] = c) - 1

\* The letters [a-zA-Z] of the model's alphabet: the six type letters and
\* two letters that are no type.
LetterChars == {"u", "s", "f", "b", "r", "p", "x", "U"}

IsLetter(c) == c \in LetterChars

RECURSIVE DecimalValue(_, _)
\* int(digits) for a non-empty string of decimal digits, acc the value so far.
DecimalValue(digits, acc) ==
    IF digits = <<>> THEN acc
    ELSE DecimalValue(Tail(digits), acc * Len(DigitChars) + DigitVal(Head(digits)))

RECURSIVE BinDigits(_)
\* The binary digits of n >= 0 without leading zeros; "0" for 0.
BinDigits(n) ==
    IF n < 2 THEN <<DigitChars[n + 1]>>
    ELSE BinDigits(n \div 2) \o <<DigitChars[(n % 2) + 1]>>

\* '{:0<size>b}'.format(arg): the sign, then the digits left-padded with
\* zeros so that sign and digits fill at least size characters.
FormatBinary(size, arg) ==
    LET sign == IF arg < 0 THEN <<"-">> ELSE <<>>
        digs == BinDigits(IF arg < 0 THEN -arg ELSE arg)
    IN  sign \o Repeat("0", size - Len(sign) - Len(digs)) \o digs

RECURSIVE BinValue(_, _)
BinValue(s, acc) ==
    IF s = <<>> THEN acc ELSE BinValue(Tail(s), 2 * acc + DigitVal(Head(s)))

IsBinDigits(s) == s # <<>> /\ \A i \in 1..Len(s) : s[i] \in {"0", "1"}

\* int(s, 2) parses an optional sign and at least one binary digit.
IntBase2Ok(s) ==
    IF s # <<>> /\ Head(s) = "-" THEN IsBinDigits(Tail(s)) ELSE IsBinDigits(s)

IntBase2(s) ==
    IF Head(s) = "-" THEN -BinValue(Tail(s), 0) ELSE BinValue(s, 0)

\* '{:08b}'.format(b) for a byte b.
ByteBits(b) == FormatBinary(8, b)

RECURSIVE BytesToBits(_)
\* ''.join('{:08b}'.format(b) for b in data)
BytesToBits(bytes) ==
    IF bytes = <<>> THEN <<>>
    ELSE ByteBits(Head(bytes)) \o BytesToBits(Tail(bytes))

----------------------------------------------------------------------------
(* Python values: an int, a bool, a bytearray, or a float given by the     *)
(* bytes of its IEEE-754 pattern, most significant first.  One record      *)
(* shape holds them all.                                                   *)

IntVal(v) == [kind |-> "int", n |-> v, bytes |-> <<>>]

BoolVal(b) == [kind |-> "bool", n |-> IF b THEN 1 ELSE 0, bytes |-> <<>>]

BytesVal(s) == [kind |-> "bytes", n |-> 0, bytes |-> s]

FloatVal(s) == [kind |-> "float", n |-> 0, bytes |-> s]

----------------------------------------------------------------------------
(* Results of calls that may raise.                                        *)

Ok(v) == [err |-> "", val |-> v]

Raise(e) == [err |-> e, val |-> <<>>]

----------------------------------------------------------------------------
(* _parse_format: re.findall(r'([<>]?)([a-zA-Z])(\d+)', fmt), then the      *)
(* endianness carried from token to token.                                 *)

RECURSIVE DigitsEnd(_, _)
\* The first position at or after i that holds no digit: where \d+ stops.
DigitsEnd(s, i) ==
    IF i <= Len(s) /\ IsDigit(s[i]) THEN DigitsEnd(s, i + 1) ELSE i

\* The match of the pattern that starts exactly at position i, if any.
MatchAt(s, i) ==
    LET m == IF s[i] \in {"<", ">"} THEN 1 ELSE 0
        l == i + m
        e == DigitsEnd(s, l + 1)
    IN  IF l <= Len(s) /\ IsLetter(s[l]) /\ e > l + 1
        THEN [ok |-> TRUE, info |-> <<SubSeq(s, i, l - 1), s[l], SubSeq(s, l + 1, e - 1)>>,
              next |-> e]
        ELSE [ok |-> FALSE, info |-> <<>>, next |-> i + 1]

RECURSIVE FindAll(_, _)
\* The non-overlapping matches from position i on, left to right; text that
\* matches nothing is skipped.
FindAll(s, i) ==
    IF i > Len(s) THEN <<>>
    ELSE LET m == MatchAt(s, i)
         IN  IF m.ok THEN <<m.info>> \o FindAll(s, m.next)
             ELSE FindAll(s, m.next)

RECURSIVE ResolveInfosNoCarry(_, _)
\* ResolveInfos as it would be without the carry: a token without a marker
\* falls back to '>' whatever came before it.
ResolveInfosNoCarry(parsed, endianness) ==
    IF parsed = <<>> THEN <<>>
    ELSE LET info == Head(parsed)
             e == IF info[1] # <<>> THEN info[1][1] ELSE endianness
         IN  <<<<info[2], DecimalValue(info[3], 0), e>>>>
                 \o ResolveInfosNoCarry(Tail(parsed), endianness)

RECURSIVE ResolveInfos(_, _)
\* The loop of _parse_format over parsed_infos, endianness the order so far.
ResolveInfos(parsed, endianness) ==
    IF parsed = <<>> THEN <<>>
    ELSE LET info == Head(parsed)
             e == IF info[1] # <<>> THEN info[1][1] ELSE endianness
         IN  <<<<info[2], DecimalValue(info[3], 0), e>>>>
                 \o ResolveInfos(Tail(parsed), e)

\* The infos of a descriptor string: <<type, size, endianness>> per field.
_parse_format(f) == ResolveInfos(FindAll(f, 1), ">")

----------------------------------------------------------------------------
(* translate_endianness                                                    *)

byte_width == 8

\* [byte_width] * int(len(bits) / byte_width), the partial chunk inserted
\* in front.
ChunkSizes(bits) ==
    LET whole == [i \in 1..(Len(bits) \div byte_width) |-> byte_width]
        partial_len == Len(bits) % byte_width
    IN  IF partial_len > 0 THEN <<partial_len>> \o whole ELSE whole

RECURSIVE TakeFront(_, _, _)
\* target '<': each chunk is cut from the front and inserted at bytes[0].
TakeFront(bits, sizes, bytes) ==
    IF sizes = <<>> THEN bytes
    ELSE TakeFront(Slice(bits, Head(sizes), Len(bits)), Tail(sizes),
                   <<Slice(bits, 0, Head(sizes))>> \o bytes)

\* bits[-size:] and bits[:-size] for size >= 1.
LastN(bits, size) == Slice(bits, IF size > Len(bits) THEN 0 ELSE Len(bits) - size, Len(bits))

DropLastN(bits, size) == Slice(bits, 0, Len(bits) - size)

RECURSIVE TakeBackFromFront(_, _, _)
\* TakeBack as it would be with the chunks cut from the front, as the '<'
\* branch cuts them.
TakeBackFromFront(bits, sizes, bytes) ==
    IF sizes = <<>> THEN bytes
    ELSE TakeBackFromFront(Slice(bits, Head(sizes), Len(bits)), Tail(sizes),
                           bytes \o <<Slice(bits, 0, Head(sizes))>>)

RECURSIVE TakeBack(_, _, _)
\* target '>': each chunk is cut from the end and appended to bytes.
TakeBack(bits, sizes, bytes) ==
    IF sizes = <<>> THEN bytes
    ELSE TakeBack(DropLastN(bits, Head(sizes)), Tail(sizes),
                  bytes \o <<LastN(bits, Head(sizes))>>)

translate_endianness(bits, target) ==
    IF target = "<" THEN Ok(Flatten(TakeFront(bits, ChunkSizes(bits), <<>>)))
    ELSE IF target = ">" THEN Ok(Flatten(TakeBack(bits, ChunkSizes(bits), <<>>)))
    ELSE Raise("ValueError")

----------------------------------------------------------------------------
(* The type codecs.  Each returns Ok(bits) / Ok(value) or raises.          *)

\* translate_endianness with a target the caller knows is '<' or '>'.
Translated(bits, target) == translate_endianness(bits, target).val

\* _pack_integer as it would be if it kept only the low size bits of arg.
_pack_integer_masked(size, arg, target) ==
    LET bits == FormatBinary(size, arg % Pow2(size))
    IN  IF target = "<" THEN Translated(bits, "<") ELSE bits

_pack_integer(size, arg, target) ==
    LET a == IF arg < 0 THEN Pow2(size) + arg ELSE arg
        bits == FormatBinary(size, a)
    IN  IF target = "<" THEN Translated(bits, "<") ELSE bits

\* int(arg) of a bool.
BoolToInt(arg) == IF arg THEN 1 ELSE 0

_pack_boolean(size, arg) == _pack_integer(size, BoolToInt(arg), ">")

_pack_bytearray(size, arg, target) ==
    LET bits == Slice(BytesToBits(arg), 0, size)
    IN  IF target = "<" THEN Translated(bits, target) ELSE bits

\* struct.pack(target + 'f' / 'd', arg): the bytes of the value's IEEE-754
\* pattern, most significant byte first for '>', least significant for '<'.
StructPack(target, arg) == IF target = "<" THEN Reverse(arg) ELSE arg

\* struct.unpack(endianness + 'f' / 'd', packed)[0]
StructUnpack(endianness, packed) ==
    IF endianness = "<" THEN Reverse(packed) ELSE packed

_pack_float(size, arg, target) ==
    IF size = 32 \/ size = 64
    THEN Ok(_pack_bytearray(size, StructPack(target, arg), target))
    ELSE Raise("ValueError")

\* _unpack_integer as it would be if it translated to '<' again, as
\* _unpack_bytearray does, instead of back to '>'.
_unpack_integer_sameTarget(type, bits, endianness) ==
    LET b == IF endianness = "<" THEN Translated(bits, "<") ELSE bits
    IN  IF ~IntBase2Ok(b) THEN Raise("ValueError")
        ELSE LET value == IntBase2(b)
             IN  Ok(IF type = "s" /\ b[1] = "1" THEN value - Pow2(Len(b)) ELSE value)

_unpack_integer(type, bits, endianness) ==
    LET b == IF endianness = "<" THEN Translated(bits, ">") ELSE bits
    IN  IF ~IntBase2Ok(b) THEN Raise("ValueError")
        ELSE LET value == IntBase2(b)
             IN  Ok(IF type = "s" /\ b[1] = "1" THEN value - Pow2(Len(b)) ELSE value)

_unpack_boolean(bits) ==
    LET r == _unpack_integer("u", bits, ">")
    IN  IF r.err # "" THEN r ELSE Ok(r.val # 0)

RECURSIVE WholeBytes(_, _, _)
\* for i in range(size // 8): value.append(int(bits[8*i:8*i+8], 2)), from
\* index i on; raises when a slice holds no digit.
WholeBytes(bits, i, n) ==
    IF i >= n THEN Ok(<<>>)
    ELSE LET chunk == Slice(bits, 8 * i, 8 * i + 8)
             rest == WholeBytes(bits, i + 1, n)
         IN  IF ~IntBase2Ok(chunk) THEN Raise("ValueError")
             ELSE IF rest.err # "" THEN rest
             ELSE Ok(<<IntBase2(chunk)>> \o rest.val)

_unpack_bytearray(size, bits, endianness) ==
    LET b == IF endianness = "<" THEN Translated(bits, "<") ELSE bits
        whole == WholeBytes(b, 0, size \div 8)
        rest == size % 8
        tail == Slice(b, size - rest, Len(b))
    IN  IF whole.err # "" THEN whole
        ELSE IF rest = 0 THEN whole
        ELSE IF ~IntBase2Ok(tail) \/ IntBase2(tail) * Pow2(8 - rest) > 255
        THEN Raise("ValueError")
        ELSE Ok(whole.val \o <<IntBase2(tail) * Pow2(8 - rest)>>)

_unpack_float(size, bits, endianness) ==
    LET packed == _unpack_bytearray(size, bits, endianness)
    IN  IF packed.err # "" THEN packed
        ELSE IF size = 32 \/ size = 64 THEN Ok(StructUnpack(endianness, packed.val))
        ELSE Raise("ValueError")

----------------------------------------------------------------------------
(* pack                                                                    *)

\* PackField as it would be if a letter that is no type were passed over
\* instead of raising.
PackFieldLenient(type, size, endianness, have, arg) ==
    IF type \in {"u", "s"}
    THEN IF have THEN Ok(_pack_integer(size, arg.n, endianness)) ELSE Raise("IndexError")
    ELSE IF type = "f"
    THEN IF have THEN _pack_float(size, arg.bytes, endianness) ELSE Raise("IndexError")
    ELSE IF type = "b"
    THEN IF have THEN Ok(_pack_boolean(size, arg.n # 0)) ELSE Raise("IndexError")
    ELSE IF type = "r"
    THEN IF have THEN Ok(_pack_bytearray(size, arg.bytes, endianness)) ELSE Raise("IndexError")
    ELSE Ok(<<>>)

\* What one non-padding field of pack's loop contributes: its bits, or the
\* error it raises.  have says whether args[i] exists; an argument is of the
\* kind its field takes (a number for u and s, a bool for b, a float for f,
\* a bytearray for r).
PackField(type, size, endianness, have, arg) ==
    IF type \in {"u", "s"}
    THEN IF have THEN Ok(_pack_integer(size, arg.n, endianness)) ELSE Raise("IndexError")
    ELSE IF type = "f"
    THEN IF have THEN _pack_float(size, arg.bytes, endianness) ELSE Raise("IndexError")
    ELSE IF type = "b"
    THEN IF have THEN Ok(_pack_boolean(size, arg.n # 0)) ELSE Raise("IndexError")
    ELSE IF type = "r"
    THEN IF have THEN Ok(_pack_bytearray(size, arg.bytes, endianness)) ELSE Raise("IndexError")
    ELSE Raise("ValueError")

RECURSIVE PackLoop(_, _, _)
\* pack's loop after its first k fields: the accumulated bits, the argument
\* index i (counted from 0) and the error raised so far, if any.
PackLoop(infos, a, k) ==
    IF k = 0 THEN [err |-> "", bits |-> <<>>, i |-> 0]
    ELSE LET st == PackLoop(infos, a, k - 1)
             type == infos[k][1]
             size == infos[k][2]
             endianness == infos[k][3]
         IN  IF st.err # "" THEN st
             ELSE IF type = "p"
             THEN [st EXCEPT !.bits = st.bits \o Repeat("0", size)]
             ELSE LET have == st.i < Len(a)
                      f == PackField(type, size, endianness, have,
                                     IF have THEN a[st.i + 1] ELSE IntVal(0))
                  IN  IF f.err # "" THEN [st EXCEPT !.err = f.err]
                      ELSE [st EXCEPT !.bits = st.bits \o f.val, !.i = st.i + 1]

\* PadTail as it would be without the test for a full last byte.
PadTailAlways(bits) == bits \o Repeat("0", 8 - (Len(bits) % 8))

\* The padding of the last byte.
PadTail(bits) ==
    LET tail == Len(bits) % 8
    IN  IF tail # 0 THEN bits \o Repeat("0", 8 - tail) ELSE bits

RECURSIVE ToByteArray(_)
\* bytearray([int(bits[i:i+8], 2) for i in range(0, len(bits), 8)]): raises
\* when a slice is no number or the number is no byte.
ToByteArray(bits) ==
    IF bits = <<>> THEN Ok(<<>>)
    ELSE LET chunk == Slice(bits, 0, 8)
             rest == ToByteArray(Slice(bits, 8, Len(bits)))
         IN  IF ~IntBase2Ok(chunk) THEN Raise("ValueError")
             ELSE IF rest.err # "" THEN rest
             ELSE IF IntBase2(chunk) < 0 \/ IntBase2(chunk) > 255
             THEN Raise("ValueError")
             ELSE Ok(<<IntBase2(chunk)>> \o rest.val)

pack(f, a) ==
    LET infos == _parse_format(f)
        st == PackLoop(infos, a, Len(infos))
    IN  IF st.err # "" THEN Raise(st.err) ELSE ToByteArray(PadTail(st.bits))

----------------------------------------------------------------------------
(* unpack                                                                  *)

\* The value of a decoded field as unpack's caller sees it.
Wrap(r, kind) ==
    IF r.err # "" THEN r
    ELSE IF kind = "int" THEN Ok(IntVal(r.val))
    ELSE IF kind = "bool" THEN Ok(BoolVal(r.val))
    ELSE IF kind = "float" THEN Ok(FloatVal(r.val))
    ELSE Ok(BytesVal(r.val))

UnpackField(type, size, endianness, value_bits) ==
    IF type \in {"u", "s"} THEN Wrap(_unpack_integer(type, value_bits, endianness), "int")
    ELSE IF type = "f" THEN Wrap(_unpack_float(size, value_bits, endianness), "float")
    ELSE IF type = "b" THEN Wrap(_unpack_boolean(value_bits), "bool")
    ELSE IF type = "r" THEN Wrap(_unpack_bytearray(size, value_bits, endianness), "bytes")
    ELSE Raise("ValueError")

RECURSIVE UnpackLoop(_, _, _)
\* unpack's loop after its first k fields: the values so far, the bit
\* cursor i and the error raised so far, if any.
UnpackLoop(infos, bits, k) ==
    IF k = 0 THEN [err |-> "", res |-> <<>>, i |-> 0]
    ELSE LET st == UnpackLoop(infos, bits, k - 1)
             type == infos[k][1]
             size == infos[k][2]
             endianness == infos[k][3]
         IN  IF st.err # "" THEN st
             ELSE IF type = "p" THEN [st EXCEPT !.i = st.i + size]
             ELSE LET v == UnpackField(type, size, endianness,
                                       Slice(bits, st.i, st.i + size))
                  IN  IF v.err # "" THEN [st EXCEPT !.err = v.err]
                      ELSE [st EXCEPT !.res = Append(st.res, v.val), !.i = st.i + size]

unpack(f, d) ==
    LET infos == _parse_format(f)
        st == UnpackLoop(infos, BytesToBits(d), Len(infos))
    IN  IF st.err # "" THEN Raise(st.err) ELSE Ok(st.res)

----------------------------------------------------------------------------
(* calcsize                                                                *)

\* calcsize as it would be if padding fields were left out of the sum.
calcsize_noPadding(f) ==
    LET infos == _parse_format(f)
    IN  SumSeq([k \in 1..Len(infos) |-> IF infos[k][1] = "p" THEN 0 ELSE infos[k][2]])

calcsize(f) ==
    LET infos == _parse_format(f)
    IN  SumSeq([k \in 1..Len(infos) |-> infos[k][2]])

----------------------------------------------------------------------------
(* byteswap                                                                *)

\* data[i:i+length] = reversed(data[i:i+length]): Python clamps the slice to
\* the buffer, so the buffer keeps its length.
SwapGroup(d, i, length) ==
    LET lo == IF i > Len(d) THEN Len(d) ELSE i
        hi == IF i + length > Len(d) THEN Len(d) ELSE i + length
    IN  [j \in 1..Len(d) |->
            IF j > lo /\ j <= hi THEN d[lo + hi + 1 - j] ELSE d[j]]

RECURSIVE SwapLoopNoAdvance(_, _, _)
\* SwapLoop as it would be if the running offset were never advanced.
SwapLoopNoAdvance(f, d, i) ==
    IF f = <<>> THEN d
    ELSE LET length == DigitVal(Head(f))
         IN  SwapLoopNoAdvance(Tail(f), SwapGroup(d, i, length), i)

RECURSIVE SwapLoop(_, _, _)
\* The loop over the characters of fmt, i the running offset.
SwapLoop(f, d, i) ==
    IF f = <<>> THEN d
    ELSE LET length == DigitVal(Head(f))
         IN  SwapLoop(Tail(f), SwapGroup(d, i, length), i + length)

byteswap(f, d, offset) == SwapLoop(f, d, offset)

----------------------------------------------------------------------------
(* The inputs the calls are made with.                                     *)

MaxWidth == 17      \* single-field descriptors have widths 1..MaxWidth
SmallWidth == 3     \* up to this width every in-range integer is tried
MaxFields == 2      \* descriptors built from MultiItems have 2..MaxFields fields
MaxBits == 12       \* every bit string of up to MaxBits bits is translated
MaxData == 6        \* byteswap buffers hold up to MaxData bytes
MaxGroups == 3      \* byteswap formats hold up to MaxGroups digits
MaxDigit == 3       \* each of them 0..MaxDigit
MaxOffset == 3      \* byteswap offsets are 0..MaxOffset

RECURSIVE Dec(_)
\* The decimal digits of n >= 0.
Dec(n) ==
    IF n < Len(DigitChars) THEN <<DigitChars[n + 1]>>
    ELSE Dec(n \div Len(DigitChars)) \o <<DigitChars[(n % Len(DigitChars)) + 1]>>

\* A token as written: marker e ("" for none), type letter t, width digits w.
Tok(e, t, n) == [e |-> e, t |-> t, w |-> Dec(n)]

NoWidth(e, t) == [e |-> e, t |-> t, w |-> <<>>]

TokChars(tok) == (IF tok.e = "" THEN <<>> ELSE <<tok.e>>) \o <<tok.t>> \o tok.w

\* The descriptor string of a token sequence.
Render(toks) == Flatten([k \in 1..Len(toks) |-> TokChars(toks[k])])

Markers == {"", "<", ">"}

TypeLetters == {"u", "s", "f", "b", "r", "p"}

\* ceil(n / 8)
NBytes(n) == (n + 7) \div 8

UValues(w) ==
    {0, 1, Pow2(w) - 1, Pow2(w) - 2, Pow2(w - 1), Pow2(w) \div 3,
     Pow2(w), Pow2(w) + 1, Pow2(w + 1) + 1, -1, -Pow2(w) - 1}
        \cup (IF w <= SmallWidth THEN 0..(Pow2(w) - 1) ELSE {})

SValues(w) ==
    {0, 1, -1, -2, Pow2(w - 1) - 1, -Pow2(w - 1), Pow2(w) \div 3,
     Pow2(w - 1), Pow2(w) - 1, Pow2(w), Pow2(w) + 1,
     -Pow2(w - 1) - 1, -Pow2(w), -Pow2(w) - 1, -Pow2(w + 1) - 1}
        \cup (IF w <= SmallWidth THEN (-Pow2(w - 1))..(Pow2(w - 1) - 1) ELSE {})

\* 3.14159 and 3.75 as 32-bit patterns, 1.0 and 3.14159 as 64-bit patterns.
Pi32 == <<64, 73, 15, 208>>

F32Values == {Pi32, <<64, 112, 0, 0>>, <<0, 0, 0, 1>>}

F64Values == {<<63, 240, 0, 0, 0, 0, 0, 0>>, <<64, 9, 33, 249, 240, 27, 134, 110>>}

RawPattern == <<18, 52, 86, 120>>

\* Raw arguments for a field of w bits: of the needed length, one byte longer
\* and (the truncating case) one byte shorter.
RValues(w) ==
    {SubSeq(RawPattern, 1, n) : n \in {NBytes(w), NBytes(w) + 1, NBytes(w) - 1}}
        \cup {[i \in 1..NBytes(w) |-> 255],
              [i \in 1..NBytes(w) |-> IF i % 2 = 1 THEN 0 ELSE 255]}

ArgValues(t, w) ==
    IF t = "u" THEN {IntVal(v) : v \in UValues(w)}
    ELSE IF t = "s" THEN {IntVal(v) : v \in SValues(w)}
    ELSE IF t = "b" THEN {BoolVal(b) : b \in BOOLEAN}
    ELSE IF t = "r" THEN {BytesVal(v) : v \in RValues(w)}
    ELSE IF w = 32 THEN {FloatVal(v) : v \in F32Values}
    ELSE {FloatVal(v) : v \in F64Values}

\* An input of the codec: the tokens of the descriptor and pack's arguments.
Input(toks, a) == [toks |-> toks, args |-> a]

\* One field of any integer, boolean or raw type, of any width and marker,
\* with every argument of ArgValues; one padding field; one float field.
SingleInputs ==
    UNION {{Input(<<Tok(e, t, w)>>, <<v>>) : v \in ArgValues(t, w)} :
              e \in Markers, t \in {"u", "s", "b", "r"}, w \in 1..MaxWidth}
    \cup {Input(<<Tok(e, "p", w)>>, <<>>) : e \in Markers, w \in 1..MaxWidth}
    \cup UNION {{Input(<<Tok(e, "f", w)>>, <<v>>) : v \in ArgValues("f", w)} :
                   e \in Markers, w \in {32, 64}}

\* The items descriptors of several fields are built from: a token and the
\* arguments (none or one) passed for it.
Item(tok, a) == [tok |-> tok, arg |-> a]

MultiItems ==
    {Item(Tok("", "u", 3), <<IntVal(5)>>),
     Item(Tok("", "u", 3), <<IntVal(8)>>),
     Item(Tok("<", "u", 10), <<IntVal(513)>>),
     Item(Tok("", "s", 10), <<IntVal(-3)>>),
     Item(Tok(">", "s", 6), <<IntVal(-2)>>),
     Item(Tok("", "b", 1), <<BoolVal(TRUE)>>),
     Item(Tok("", "p", 2), <<>>),
     Item(Tok("<", "p", 7), <<>>),
     Item(Tok("", "r", 12), <<BytesVal(<<18, 52>>)>>),
     Item(Tok("<", "r", 12), <<BytesVal(<<18, 52>>)>>),
     Item(Tok("", "f", 32), <<FloatVal(Pi32)>>),
     Item(Tok("<", "f", 32), <<FloatVal(Pi32)>>),
     Item(Tok("", "x", 3), <<IntVal(0)>>),
     Item(NoWidth("", "u"), <<>>),
     Item(Tok("", "u", 0), <<IntVal(0)>>)}

MultiInputs ==
    UNION {{Input([k \in 1..n |-> its[k].tok], Flatten([k \in 1..n |-> its[k].arg])) :
               its \in [1..n -> MultiItems]} : n \in 2..MaxFields}

\* Tokens the descriptor grammar does not allow: a letter that is no type,
\* a type letter without a width, a zero width, a float of a bad width.
MalformedInputs ==
    {Input(<<Tok(e, t, 3)>>, <<IntVal(0)>>) : e \in Markers, t \in {"x", "U"}}
    \cup {Input(<<NoWidth(e, t)>>, <<IntVal(0)>>) : e \in Markers, t \in {"u", "s", "x"}}
    \cup {Input(<<Tok(e, t, 0)>>, <<IntVal(0)>>) : e \in Markers, t \in {"u", "s"}}
    \cup {Input(<<Tok(e, "b", 0)>>, <<BoolVal(FALSE)>>) : e \in Markers}
    \cup {Input(<<Tok(e, "r", 0)>>, <<BytesVal(<<18>>)>>) : e \in Markers}
    \cup {Input(<<Tok(e, "p", 0)>>, <<>>) : e \in Markers}
    \cup {Input(<<Tok(e, "f", w)>>, <<FloatVal(Pi32)>>) : e \in Markers, w \in {0, 33}}

\* Calls with fewer arguments than non-padding fields.
ShortInputs ==
    {Input(<<Tok("", "u", 3)>>, <<>>),
     Input(<<Tok("", "u", 3), Tok("", "s", 10)>>, <<IntVal(5)>>),
     Input(<<Tok("", "x", 3)>>, <<>>),
     Input(<<Tok("", "u", 3), Tok("", "x", 3)>>, <<>>)}

\* The values and descriptors of test_endianness.
EndianData ==
    <<IntVal(0), IntVal(0), IntVal(-2), IntVal(65), IntVal(22), FloatVal(Pi32)>>

EndianTokens(e3, e4, e5, e6) ==
    <<Tok("", "u", 1), Tok("", "u", 1), Tok(e3, "s", 14), Tok(e4, "u", 17),
      Tok(e5, "u", 9), Tok(e6, "f", 32)>>

EndianFormats ==
    {Render(EndianTokens("<", "<", ">", ">")), Render(EndianTokens("<", ">", ">", ">")),
     Render(EndianTokens(">", ">", ">", ">")), Render(EndianTokens(">", ">", ">", "<"))}

\* The calls of the test suite and of pack's docstring.
TestInputs ==
    {Input(<<Tok("", "u", 1), Tok("", "u", 1), Tok("", "s", 6), Tok("", "u", 7),
             Tok("", "u", 9)>>,
           <<IntVal(0), IntVal(0), IntVal(-2), IntVal(65), IntVal(22)>>),
     Input(<<Tok("", "p", 1), Tok("", "u", 1), Tok("", "s", 6), Tok("", "u", 7),
             Tok("", "u", 9)>>,
           <<IntVal(0), IntVal(-2), IntVal(65), IntVal(22)>>),
     Input(<<Tok("", "p", 1), Tok("", "u", 1), Tok("", "s", 6), Tok("", "p", 7),
             Tok("", "u", 9)>>,
           <<IntVal(0), IntVal(-2), IntVal(22)>>),
     Input(<<Tok("", "u", 1), Tok("", "s", 6), Tok("", "f", 32), Tok("", "r", 43)>>,
           <<IntVal(0), IntVal(-2), FloatVal(<<64, 112, 0, 0>>),
             BytesVal(<<0, 255, 0, 255, 0, 255>>)>>),
     Input(<<Tok("", "b", 1), Tok("", "p", 6), Tok("", "b", 1)>>,
           <<BoolVal(TRUE), BoolVal(TRUE)>>),
     Input(<<Tok("", "u", 5), Tok("", "b", 2), Tok("", "u", 1)>>,
           <<IntVal(-1), BoolVal(FALSE), IntVal(1)>>),
     Input(<<Tok("", "u", 1), Tok("", "u", 5), Tok("", "u", 2), Tok("", "u", 16)>>,
           <<IntVal(1), IntVal(2), IntVal(3), IntVal(4)>>),
     Input(<<Tok("", "u", 1), Tok("<", "u", 2), Tok("", "u", 3)>>,
           <<IntVal(1), IntVal(2), IntVal(5)>>),
     Input(<<Tok(">", "u", 1), Tok("<", "u", 2), Tok("<", "u", 3)>>,
           <<IntVal(1), IntVal(2), IntVal(5)>>),
     Input(EndianTokens("<", "<", ">", "<"), EndianData),
     Input(EndianTokens("<", "<", ">", ">"), EndianData),
     Input(EndianTokens("<", ">", ">", ">"), EndianData),
     Input(EndianTokens(">", ">", ">", ">"), EndianData),
     Input(EndianTokens(">", ">", ">", "<"), EndianData)}

CodecInputs ==
    SingleInputs \cup MultiInputs \cup MalformedInputs \cup ShortInputs \cup TestInputs

\* The buffers unpack is given directly: zero bytes and 255 bytes to the
\* size of the descriptor, and a buffer one byte short of it.
Buffers(f) ==
    LET n == NBytes(calcsize(f))
    IN  {[i \in 1..n |-> 0], [i \in 1..n |-> 255], [i \in 1..(n - 1) |-> 165]}

----------------------------------------------------------------------------
(* The codec: one of pack, calcsize or unpack is called on the input, and  *)
(* the buffer a successful pack returned is unpacked again.                *)

Idle == <<>>

\* What a call of the codec left: the error it raised, or the bytearray
\* (pack), the tuple of values (unpack) or the number (calcsize) it returned.
NoResult == [err |-> "", bytes |-> <<>>, values |-> <<>>, size |-> 0]

BytesResult(r) == [NoResult EXCEPT !.err = r.err, !.bytes = r.val]

ValuesResult(r) == [NoResult EXCEPT !.err = r.err, !.values = r.val]

SizeResult(n) == [NoResult EXCEPT !.size = n]

CodecIdle ==
    /\ fmtTokens = Idle /\ fmt = Idle /\ args = Idle /\ data = Idle
    /\ op = "idle" /\ ret = NoResult

TranslateIdle ==
    /\ bitstring = Idle /\ little = Ok(<<>>) /\ big = Ok(<<>>) /\ tstep = 0

SwapIdle ==
    /\ swapFmt = Idle /\ swapOffset = 0 /\ buf = Idle /\ orig = Idle
    /\ swapRet = Idle /\ calls = 0

Init ==
    /\ \E inp \in CodecInputs :
          /\ fmtTokens = inp.toks
          /\ fmt = Render(inp.toks)
          /\ args = inp.args
    /\ data = <<>>
    /\ op = "init"
    /\ ret = NoResult
    /\ TranslateIdle
    /\ SwapIdle

Pack ==
    /\ op = "init"
    /\ op' = "pack"
    /\ ret' = BytesResult(pack(fmt, args))
    /\ UNCHANGED <<fmtTokens, fmt, args, data>>
    /\ UNCHANGED <<translateVars, swapVars>>

Unpack ==
    /\ op = "pack"
    /\ ret.err = ""
    /\ op' = "unpack"
    /\ data' = ret.bytes
    /\ ret' = ValuesResult(unpack(fmt, ret.bytes))
    /\ UNCHANGED <<fmtTokens, fmt, args>>
    /\ UNCHANGED <<translateVars, swapVars>>

UnpackBuffer ==
    /\ op = "init"
    /\ \E d \in Buffers(fmt) :
          /\ data' = d
          /\ ret' = ValuesResult(unpack(fmt, d))
    /\ op' = "unpack_buffer"
    /\ UNCHANGED <<fmtTokens, fmt, args>>
    /\ UNCHANGED <<translateVars, swapVars>>

Calcsize ==
    /\ op = "init"
    /\ op' = "calcsize"
    /\ ret' = SizeResult(calcsize(fmt))
    /\ UNCHANGED <<fmtTokens, fmt, args, data>>
    /\ UNCHANGED <<translateVars, swapVars>>

Next == Pack \/ Unpack \/ UnpackBuffer \/ Calcsize

Spec == Init /\ [][Next]_vars

----------------------------------------------------------------------------
(* translate_endianness called on a bit string with target '<', and again  *)
(* on the result with target '>'; or once with a target it does not know.  *)

RECURSIVE BitStringsOf(_)
\* Every bit string of exactly n bits.
BitStringsOf(n) ==
    IF n = 0 THEN {<<>>}
    ELSE {<<b>> \o s : b \in {"0", "1"}, s \in BitStringsOf(n - 1)}

ChunkPatterns == {<<"1", "1", "1", "1", "1", "1", "0", "1">>,
                  <<"0", "0", "1", "0", "1", "1", "0", "0">>,
                  <<"1", "0", "0", "0", "0", "0", "0", "1">>}

\* Every bit string of up to MaxBits bits, and longer ones of one to three
\* whole chunks behind a partial chunk of up to three bits.
BitStrings ==
    UNION {BitStringsOf(n) : n \in 0..MaxBits}
    \cup {h \o a \o b : h \in UNION {BitStringsOf(n) : n \in 0..3},
                        a \in ChunkPatterns, b \in ChunkPatterns}
    \cup {h \o a \o b \o c : h \in BitStringsOf(2),
                             a \in ChunkPatterns, b \in ChunkPatterns, c \in ChunkPatterns}

InitTranslate ==
    /\ bitstring \in BitStrings
    /\ little = Ok(<<>>)
    /\ big = Ok(<<>>)
    /\ tstep = 0
    /\ CodecIdle
    /\ SwapIdle

TranslateLittle ==
    /\ tstep = 0
    /\ little' = translate_endianness(bitstring, "<")
    /\ tstep' = 1
    /\ UNCHANGED <<bitstring, big>>
    /\ UNCHANGED <<codecVars, swapVars>>

TranslateBig ==
    /\ tstep = 1
    /\ big' = translate_endianness(little.val, ">")
    /\ tstep' = 2
    /\ UNCHANGED <<bitstring, little>>
    /\ UNCHANGED <<codecVars, swapVars>>

TranslateUnsupported ==
    /\ tstep = 0
    /\ little' = translate_endianness(bitstring, "=")
    /\ tstep' = 3
    /\ UNCHANGED <<bitstring, big>>
    /\ UNCHANGED <<codecVars, swapVars>>

NextTranslate == TranslateLittle \/ TranslateBig \/ TranslateUnsupported

SpecTranslate == InitTranslate /\ [][NextTranslate]_vars

----------------------------------------------------------------------------
(* byteswap called on a bytearray, and called again with the same group    *)
(* widths and offset on the buffer it mutated.                             *)

RECURSIVE DigitStringsOf(_)
\* Every string of exactly n digits 0..MaxDigit.
DigitStringsOf(n) ==
    IF n = 0 THEN {<<>>}
    ELSE {<<DigitChars[d + 1]>> \o s : d \in 0..MaxDigit, s \in DigitStringsOf(n - 1)}

\* The swap format and the buffer of test_byteswap.
TestSwapFmt == <<"1", "2", "1", "4", "2">>

TestSwapData == <<1, 3, 2, 4, 8, 7, 6, 5, 10, 9>>

SwapFmts == UNION {DigitStringsOf(n) : n \in 0..MaxGroups} \cup {TestSwapFmt}

\* Buffers of n distinct bytes, so that every move of a byte shows.
SwapBuffers == {[i \in 1..n |-> i] : n \in 0..MaxData} \cup {TestSwapData}

InitSwap ==
    /\ buf \in SwapBuffers
    /\ orig = buf
    /\ swapFmt = <<>>
    /\ swapOffset = 0
    /\ swapRet = <<>>
    /\ calls = 0
    /\ CodecIdle
    /\ TranslateIdle

Byteswap ==
    /\ calls = 0
    /\ \E f \in SwapFmts, offset \in 0..MaxOffset :
          /\ swapFmt' = f
          /\ swapOffset' = offset
          /\ buf' = byteswap(f, buf, offset)
    /\ swapRet' = buf'
    /\ calls' = 1
    /\ UNCHANGED orig
    /\ UNCHANGED <<codecVars, translateVars>>

ByteswapAgain ==
    /\ calls = 1
    /\ buf' = byteswap(swapFmt, buf, swapOffset)
    /\ swapRet' = buf'
    /\ calls' = 2
    /\ UNCHANGED <<swapFmt, swapOffset, orig>>
    /\ UNCHANGED <<codecVars, translateVars>>

NextSwap == Byteswap \/ ByteswapAgain

SpecSwap == InitSwap /\ [][NextSwap]_vars

----------------------------------------------------------------------------
(* What the claims speak of, read off the descriptor as written.           *)

TokWidth(tok) == DecimalValue(tok.w, 0)

\* Every token is a letter followed by a width.
HasWidths(toks) == \A k \in 1..Len(toks) : toks[k].w # <<>>

\* The descriptor grammar: a type letter and a positive width, 32 or 64 for
\* a float.
WellFormed(toks) ==
    \A k \in 1..Len(toks) :
        /\ toks[k].t \in TypeLetters
        /\ toks[k].w # <<>>
        /\ TokWidth(toks[k]) >= 1
        /\ toks[k].t = "f" => TokWidth(toks[k]) \in {32, 64}

OnlyTypes(toks, types) == \A k \in 1..Len(toks) : toks[k].t \in types

\* The number of non-padding tokens among the first k.
ArgIndex(toks, k) == Cardinality({j \in 1..k : toks[j].t # "p"})

\* The sum of the widths of the first k tokens.
WidthSum(toks, k) == SumSeq([j \in 1..k |-> TokWidth(toks[j])])

ValueInRange(tok, v) ==
    LET w == TokWidth(tok)
    IN  IF tok.t = "u" THEN v.kind = "int" /\ v.n >= 0 /\ v.n < Pow2(w)
        ELSE IF tok.t = "s"
        THEN v.kind = "int" /\ v.n >= -Pow2(w - 1) /\ v.n < Pow2(w - 1)
        ELSE IF tok.t = "b" THEN v.kind = "bool"
        ELSE IF tok.t = "f" THEN v.kind = "float" /\ Len(v.bytes) * 8 = w
        ELSE v.kind = "bytes" /\ Len(v.bytes) >= NBytes(w)

\* One argument per non-padding field, each in the range of its field.
ArgsInRange(toks, a) ==
    /\ Len(a) = ArgIndex(toks, Len(toks))
    /\ \A k \in 1..Len(toks) :
          toks[k].t # "p" => ValueInRange(toks[k], a[ArgIndex(toks, k)])

RECURSIVE MarkedOrder(_, _)
\* The byte order of token k by the carry-forward rule: its own marker, else
\* that of the token before it, else '>'.
MarkedOrder(toks, k) ==
    IF toks[k].e # "" THEN toks[k].e
    ELSE IF k = 1 THEN ">"
    ELSE MarkedOrder(toks, k - 1)

\* Bit p (counted from 0, most significant bit of byte 0 first) of a buffer.
BufferBit(bytes, p) == (bytes[(p \div 8) + 1] \div Pow2(7 - (p % 8))) % 2

\* Bit j (counted from 0, most significant first) of the w-bit big-endian
\* rendering of v, a negative v rendered as 2^w + v.
RenderedBit(w, v, j) == ((IF v < 0 THEN Pow2(w) + v ELSE v) \div Pow2(w - 1 - j)) % 2

----------------------------------------------------------------------------
RoundTripCase ==
    /\ WellFormed(fmtTokens)
    /\ OnlyTypes(fmtTokens, {"u", "s", "b", "f", "p"})
    /\ ArgsInRange(fmtTokens, args)

(* C1: once pack's buffer has been unpacked with the same descriptor, a     *)
(* descriptor of u, s, b, f and p fields with any markers and one in-range  *)
(* value per non-padding field, the values unpack returns are exactly the   *)
(* values that were packed, in order; neither call raises.                  *)
C1_RoundTrip ==
    /\ (op = "pack" /\ RoundTripCase) => ret.err = ""
    /\ (op = "unpack" /\ RoundTripCase) => (ret.err = "" /\ ret.values = args)

C1_Witness ==
    /\ op = "unpack"
    /\ fmt = Render(EndianTokens("<", "<", ">", "<"))
    /\ RoundTripCase
    /\ ret.values = EndianData

----------------------------------------------------------------------------
LayoutCase ==
    /\ WellFormed(fmtTokens)
    /\ OnlyTypes(fmtTokens, {"u", "s", "b", "p"})
    /\ \A k \in 1..Len(fmtTokens) : MarkedOrder(fmtTokens, k) = ">"
    /\ ArgsInRange(fmtTokens, args)

FieldLaidOut(k) ==
    LET tok == fmtTokens[k]
        w == TokWidth(tok)
        start == WidthSum(fmtTokens, k - 1)
    IN  \A j \in 0..(w - 1) :
            BufferBit(ret.bytes, start + j) =
                IF tok.t = "p" THEN 0
                ELSE RenderedBit(w, args[ArgIndex(fmtTokens, k)].n, j)

(* C2: for a descriptor of MSB-first u, s, b and p fields and in-range      *)
(* values, pack's buffer, read bit by bit, is each field's width-bit        *)
(* big-endian rendering in descriptor order (padding as zero bits),         *)
(* followed by zero bits up to the next multiple of 8; and                  *)
(* pack('u1u1s6u7u9', 0, 0, -2, 65, 22) is 3e 82 16.                        *)
C2_PackLayout ==
    (op = "pack" /\ LayoutCase) =>
        LET total == WidthSum(fmtTokens, Len(fmtTokens))
        IN  /\ ret.err = ""
            /\ Len(ret.bytes) = NBytes(total)
            /\ \A k \in 1..Len(fmtTokens) : FieldLaidOut(k)
            /\ \A p \in total..(8 * Len(ret.bytes) - 1) : BufferBit(ret.bytes, p) = 0
            /\ (fmt = <<"u", "1", "u", "1", "s", "6", "u", "7", "u", "9">>
                    /\ args = <<IntVal(0), IntVal(0), IntVal(-2), IntVal(65), IntVal(22)>>)
                => ret.bytes = <<62, 130, 22>>

C2_Witness ==
    /\ op = "pack"
    /\ LayoutCase
    /\ fmt = <<"p", "1", "u", "1", "s", "6", "p", "7", "u", "9">>
    /\ ret.bytes = <<62, 0, 22>>

----------------------------------------------------------------------------
SizeCase == WellFormed(fmtTokens) /\ ArgsInRange(fmtTokens, args)

(* C3: calcsize is the sum of the widths of all fields, padding included;   *)
(* for in-range values (a raw argument holding at least ceil(width/8)       *)
(* bytes) pack's buffer has ceil(calcsize/8) bytes, and after its first k   *)
(* fields pack's bit string is as long as the sum of the first k widths.    *)
C3_SizeAgreement ==
    /\ (op = "calcsize" /\ WellFormed(fmtTokens)) =>
          ret.size = WidthSum(fmtTokens, Len(fmtTokens))
    /\ (op = "pack" /\ SizeCase) =>
          /\ ret.err = ""
          /\ Len(ret.bytes) = NBytes(WidthSum(fmtTokens, Len(fmtTokens)))
          /\ Len(ret.bytes) = NBytes(calcsize(fmt))
          /\ \A k \in 0..Len(fmtTokens) :
                Len(PackLoop(_parse_format(fmt), args, k).bits) = WidthSum(fmtTokens, k)

C3_Witness ==
    /\ op = "pack"
    /\ SizeCase
    /\ fmt = <<"u", "1", "s", "6", "f", "3", "2", "r", "4", "3">>
    /\ Len(ret.bytes) = 11

----------------------------------------------------------------------------
(* C4: translating a bit string of any length to '<' and the result to '>'  *)
(* gives the bit string back, and each call returns as many bits as it was  *)
(* given.                                                                   *)
C4_TranslateInvolution ==
    /\ tstep = 1 => (little.err = "" /\ Len(little.val) = Len(bitstring))
    /\ tstep = 2 =>
          /\ big.err = ""
          /\ Len(big.val) = Len(little.val)
          /\ big.val = bitstring

C4_Witness ==
    /\ tstep = 2
    /\ bitstring = <<"1", "1", "1", "1", "1", "1", "1", "1", "0", "1">>
    /\ little.val = <<"1", "1", "1", "1", "1", "1", "0", "1", "1", "1">>
    /\ big.val = bitstring

----------------------------------------------------------------------------
(* C5: packing the values of test_endianness with each of the four          *)
(* descriptors of its list gives four pairwise distinct buffers: the        *)
(* buffer pack returned for one of them differs from the buffer of each of  *)
(* the other three.                                                         *)
C5_EndianFormatsDistinct ==
    (op = "pack" /\ fmt \in EndianFormats /\ args = EndianData) =>
        /\ ret.err = ""
        /\ \A g \in EndianFormats \ {fmt} : pack(g, args).val # ret.bytes

----------------------------------------------------------------------------
\* The tokens with the carried byte order written on each.
Explicit(toks) == [k \in 1..Len(toks) |-> [toks[k] EXCEPT !.e = MarkedOrder(toks, k)]]

(* C6: the byte order compiled for each field is its own marker, else the   *)
(* order of the field before it, else '>'; and pack, unpack and calcsize    *)
(* give the same result for the descriptor with every marker written out.   *)
C6_CarryForward ==
    HasWidths(fmtTokens) =>
        LET infos == _parse_format(fmt)
            full == Render(Explicit(fmtTokens))
        IN  /\ Len(infos) = Len(fmtTokens)
            /\ \A k \in 1..Len(fmtTokens) :
                  infos[k] = <<fmtTokens[k].t, TokWidth(fmtTokens[k]),
                               MarkedOrder(fmtTokens, k)>>
            /\ _parse_format(full) = infos
            /\ op = "pack" => BytesResult(pack(full, args)) = ret
            /\ op \in {"unpack", "unpack_buffer"} => ValuesResult(unpack(full, data)) = ret
            /\ op = "calcsize" => calcsize(full) = ret.size

C6_Witness ==
    /\ op = "pack"
    /\ fmt = <<"u", "1", "<", "u", "2", "u", "3">>
    /\ _parse_format(fmt) = <<<<"u", 1, ">">>, <<"u", 2, "<">>, <<"u", 3, "<">>>>
    /\ ret = BytesResult(pack(<<">", "u", "1", "<", "u", "2", "<", "u", "3">>, args))

----------------------------------------------------------------------------
\* The sum of the first g group widths of a swap format.
GroupSum(f, g) == SumSeq([j \in 1..g |-> DigitVal(f[j])])

SwapInBounds == swapOffset + GroupSum(swapFmt, Len(swapFmt)) <= Len(orig)

(* C7: with offset + sum of the widths <= len(data), byteswap reverses the  *)
(* bytes of each consecutive group, the first starting at offset, leaves    *)
(* every byte outside the groups and the length unchanged, returns the      *)
(* mutated buffer, and a second call with the same arguments restores the   *)
(* buffer.                                                                  *)
C7_ByteswapGroups ==
    /\ (calls = 1 /\ SwapInBounds) =>
          /\ Len(buf) = Len(orig)
          /\ swapRet = buf
          /\ \A j \in 1..swapOffset : buf[j] = orig[j]
          /\ \A j \in (swapOffset + GroupSum(swapFmt, Len(swapFmt)) + 1)..Len(orig) :
                buf[j] = orig[j]
          /\ \A g \in 1..Len(swapFmt) :
                LET start == swapOffset + GroupSum(swapFmt, g - 1)
                    length == DigitVal(swapFmt[g])
                IN  \A i \in 1..length : buf[start + i] = orig[start + length + 1 - i]
    /\ (calls = 2 /\ SwapInBounds) => (buf = orig /\ swapRet = buf)

C7_Witness ==
    /\ calls = 1
    /\ SwapInBounds
    /\ swapFmt = TestSwapFmt
    /\ orig = TestSwapData
    /\ buf = <<1, 2, 3, 4, 5, 6, 7, 8, 9, 10>>

----------------------------------------------------------------------------
(* Integer values outside the range of their field.                        *)

IsIntField(tok) == tok.t \in {"u", "s"}

\* Outside the representable range: v >= 2^w for u; v >= 2^(w-1) or
\* v < -2^(w-1) for s.
OutOfRange(tok, v) ==
    LET w == TokWidth(tok)
    IN  \/ tok.t = "u" /\ v.n >= Pow2(w)
        \/ tok.t = "s" /\ (v.n >= Pow2(w - 1) \/ v.n < -Pow2(w - 1))

\* One argument per non-padding field, an integer of any size for an integer
\* field and an in-range value for any other.
ArgsTyped(toks, a) ==
    /\ Len(a) = ArgIndex(toks, Len(toks))
    /\ \A k \in 1..Len(toks) :
          LET v == a[ArgIndex(toks, k)]
          IN  /\ IsIntField(toks[k]) => v.kind = "int"
              /\ (toks[k].t # "p" /\ ~IsIntField(toks[k])) => ValueInRange(toks[k], v)

\* Every integer field is given a value of at least -2^w.
IntsNotBelow(toks, a) ==
    \A k \in 1..Len(toks) :
        (IsIntField(toks[k]) /\ toks[k].w # <<>>) =>
            a[ArgIndex(toks, k)].n >= -Pow2(TokWidth(toks[k]))

RECURSIVE BitLen(_)
\* The number of binary digits of n >= 0, one for 0.
BitLen(n) == IF n < 2 THEN 1 ELSE 1 + BitLen(n \div 2)

\* The number the bits of an integer field spell: v, or 2^w + v for v < 0.
Stored(w, v) == IF v < 0 THEN Pow2(w) + v ELSE v

\* The number of bits pack appends for token k.
AppendedLen(toks, a, k) ==
    LET w == TokWidth(toks[k])
    IN  IF IsIntField(toks[k])
        THEN LET n == BitLen(Stored(w, a[ArgIndex(toks, k)].n))
             IN  IF n > w THEN n ELSE w
        ELSE w

----------------------------------------------------------------------------
(* C8 as claimed: pack fails with a ValueError, returning no buffer,        *)
(* whenever an integer field is given a value outside its range.            *)
C8_RangeErrorRaised ==
    (/\ op = "pack"
     /\ WellFormed(fmtTokens)
     /\ ArgsTyped(fmtTokens, args)
     /\ \E k \in 1..Len(fmtTokens) :
           OutOfRange(fmtTokens[k], args[ArgIndex(fmtTokens, k)]))
        => ret.err = "ValueError"

NoRangeCheckCase ==
    /\ WellFormed(fmtTokens)
    /\ ArgsTyped(fmtTokens, args)
    /\ IntsNotBelow(fmtTokens, args)

(* C8 as amended: pack checks no integer range.  With every integer field   *)
(* given some v >= -2^w (in range or not) and every other field in range,   *)
(* pack raises nothing and returns a buffer in which each integer field is  *)
(* the binary digits of v (of 2^w + v for v < 0), at least w of them and    *)
(* more than w when they need more; a single MSB-first integer field is     *)
(* those digits at the head of the buffer.                                  *)
C8_NoRangeCheck ==
    (op = "pack" /\ NoRangeCheckCase) =>
        /\ ret.err = ""
        /\ Len(ret.bytes) =
              NBytes(SumSeq([k \in 1..Len(fmtTokens) |-> AppendedLen(fmtTokens, args, k)]))
        /\ (Len(fmtTokens) = 1 /\ IsIntField(fmtTokens[1])
                /\ MarkedOrder(fmtTokens, 1) = ">") =>
              LET n == AppendedLen(fmtTokens, args, 1)
                  v == Stored(TokWidth(fmtTokens[1]), args[1].n)
              IN  \A j \in 0..(n - 1) :
                      BufferBit(ret.bytes, j) = (v \div Pow2(n - 1 - j)) % 2

C8_Witness ==
    /\ op = "pack"
    /\ NoRangeCheckCase
    /\ fmt = <<"u", "8">>
    /\ args = <<IntVal(256)>>
    /\ OutOfRange(fmtTokens[1], args[1])
    /\ ret.bytes = <<128, 0>>

----------------------------------------------------------------------------
Malformed(toks) ==
    \E k \in 1..Len(toks) :
        \/ toks[k].t \notin TypeLetters
        \/ toks[k].w = <<>>
        \/ TokWidth(toks[k]) = 0

(* C9 as claimed: pack, unpack and calcsize each fail, returning no result, *)
(* whenever the descriptor holds a token whose letter is no type, or a      *)
(* letter whose width is missing or zero.                                   *)
C9_MalformedRejected ==
    (op \in {"pack", "unpack", "unpack_buffer", "calcsize"} /\ Malformed(fmtTokens))
        => ret.err # ""

HasBadLetter(toks) ==
    \E k \in 1..Len(toks) : toks[k].w # <<>> /\ toks[k].t \notin TypeLetters

\* The number of tokens that compile to a non-padding field.
FieldArgs(toks) == Cardinality({k \in 1..Len(toks) : toks[k].w # <<>> /\ toks[k].t # "p"})

\* The sum of the widths of the tokens that have one.
WrittenWidths(toks) ==
    SumSeq([k \in 1..Len(toks) |-> IF toks[k].w = <<>> THEN 0 ELSE TokWidth(toks[k])])

\* Only u, s, b, r and p tokens, at least one of them without a width or of
\* width zero, and an argument for every field.
LooseWidthCase ==
    /\ OnlyTypes(fmtTokens, {"u", "s", "b", "r", "p"})
    /\ \E k \in 1..Len(fmtTokens) :
          fmtTokens[k].w = <<>> \/ TokWidth(fmtTokens[k]) = 0
    /\ Len(args) >= FieldArgs(fmtTokens)
    /\ \A k \in 1..Len(_parse_format(fmt)) :
          LET info == _parse_format(fmt)[k]
              i == Cardinality({j \in 1..k : _parse_format(fmt)[j][1] # "p"})
          IN  info[1] \in {"u", "s"} => args[i].n >= -Pow2(info[2])

(* C9 as amended: pack and unpack fail, returning no result, whenever the   *)
(* descriptor holds a letter-and-width token whose letter is no type, with  *)
(* a ValueError (pack: when every non-padding field has its argument, else  *)
(* an IndexError may come first); calcsize never fails and returns the sum  *)
(* of the widths of all letter-and-width tokens whatever their letters; a   *)
(* letter without a width is skipped, and a u, s, b, r or p token of width  *)
(* zero is accepted, so neither makes calcsize fail, nor pack when every    *)
(* field has its argument and every integer argument is at least -2^w.      *)
C9_BadTypeRejected ==
    /\ (op = "pack" /\ HasBadLetter(fmtTokens)) =>
          /\ ret.err # ""
          /\ Len(args) >= FieldArgs(fmtTokens) => ret.err = "ValueError"
    /\ (op \in {"unpack", "unpack_buffer"} /\ HasBadLetter(fmtTokens)) =>
          ret.err = "ValueError"
    /\ op = "calcsize" => ret = SizeResult(WrittenWidths(fmtTokens))
    /\ (op = "pack" /\ LooseWidthCase) => ret.err = ""

C9_Witness ==
    /\ op = "pack"
    /\ fmt = <<"u", "3", "x", "3">>
    /\ HasBadLetter(fmtTokens)
    /\ Len(args) = 2
    /\ ret.err = "ValueError"

----------------------------------------------------------------------------
RawFieldRestored(k) ==
    LET w == TokWidth(fmtTokens[k])
        given == args[ArgIndex(fmtTokens, k)].bytes
        got == ret.values[ArgIndex(fmtTokens, k)].bytes
    IN  /\ Len(got) = NBytes(w)
        /\ \A j \in 0..(w - 1) : BufferBit(got, j) = BufferBit(given, j)
        /\ \A j \in w..(8 * Len(got) - 1) : BufferBit(got, j) = 0

(* C10: for a raw field of any width w >= 1 and either byte order, given at *)
(* least ceil(w/8) bytes, unpacking the packed field returns ceil(w/8)      *)
(* bytes whose first w bits are the first w bits of the argument and whose  *)
(* remaining low-order bits are zero.                                       *)
C10_RawRoundTrip ==
    (op = "unpack" /\ WellFormed(fmtTokens) /\ ArgsInRange(fmtTokens, args)) =>
        /\ ret.err = ""
        /\ \A k \in 1..Len(fmtTokens) : fmtTokens[k].t = "r" => RawFieldRestored(k)

====
